---- MODULE Spec2Model ----
(***************************************************************************)
(* gramjs-sqlite-session: the SqliteSession controller, the DatabaseManager *)
(* store adapter over one SQLite file, the FileExportManager codec and the  *)
(* SessionManager registry.                                                 *)
(*                                                                          *)
(* JavaScript is single threaded: every synchronous stretch of a method is  *)
(* one atomic action.  load() and importFromFile() suspend at their awaits  *)
(* (the dynamic import of AuthKey, then AuthKey.setKey); other calls on the *)
(* same or on another controller may run while they are suspended.          *)
(***************************************************************************)
EXTENDS Integers, Sequences, FiniteSets, TLC

(* ------------------------------ bounds --------------------------------- *)

\* CURRENT_TIMESTAMP takes the values 0..MaxTime
MaxTime == 2

\* async calls (load, importFromFile) of one controller suspended at a time
MaxPending == 2

(* ------------------------------ values --------------------------------- *)

\* An optional value: None is JavaScript undefined / null and SQL NULL,
\* Some(v) is the value v
None == <<>>
Some(v) == <<v>>
Val(o) == o[1]

Ctrl == {1, 2}
Names == {"a", "b"}
Paths == {"p"}

\* data-center inputs of setDC(dcId, serverAddress, port)
DcInputs == {<<2, "h", 80>>, <<2, "h", 0>>, <<0, "", 0>>}

\* raw key material (a Buffer), as a sequence of bytes
KeyBytes == {<<1, 171>>}

\* a credential object: new AuthKey() holds no key material, setKey(b) gives
\* it the bytes b
AuthKeyObj(k) == [key |-> k]
NewAuthKey == AuthKeyObj(None)

\* the values the authKey setter is given
AuthKeyInputs == {None} \cup {Some(AuthKeyObj(Some(k))) : k \in KeyBytes}

EntityIds == {7, 12}
EntityVals == {"x"}

\* the ids of the entity objects
CacheIds == {7, 12, 30}

\* entity objects with an identity: ref is the object (what === compares),
\* val its content; the first two are distinct objects of equal content
EntityObjects ==
    {[ref |-> 1, val |-> "x"], [ref |-> 2, val |-> "x"], [ref |-> 3, val |-> "y"]}

(* ----------------------- pure helper functions ------------------------- *)

\* JavaScript truthiness of an optional number: undefined, null and 0 are
\* falsy
TruthyNum(o) == o # None /\ Val(o) # 0

\* JavaScript truthiness of an optional string: undefined, null and '' are
\* falsy
TruthyStr(o) == o # None /\ Val(o) # ""

\* JavaScript truthiness of an optional object (a Buffer, an AuthKey): only
\* undefined and null are falsy
TruthyObj(o) == o # None

\* the decimal digits of a non-negative integer: String(n), as a sequence of
\* digits
RECURSIVE ToDigits(_)
ToDigits(n) == IF n < 10 THEN <<n>> ELSE Append(ToDigits(n \div 10), n % 10)

\* parseInt(s) of a digit string
RECURSIVE ParseInt(_)
ParseInt(s) ==
    IF Len(s) = 0 THEN 0
    ELSE 10 * ParseInt(SubSeq(s, 1, Len(s) - 1)) + s[Len(s)]

\* Object.fromEntries(map): an object whose keys are the ids as strings
FromEntries(m) ==
    [k \in {ToDigits(i) : i \in DOMAIN m} |->
        m[CHOOSE i \in DOMAIN m : ToDigits(i) = k]]

\* the loop "for [key, value] of Object.entries(obj): setEntity(parseInt(key),
\* value)" applied to the Map m: a key of obj overwrites the same id of m
SetEntries(m, obj) ==
    LET ids == {ParseInt(k) : k \in DOMAIN obj}
    IN  [i \in (DOMAIN m) \cup ids |->
            IF i \in ids
            THEN obj[CHOOSE k \in DOMAIN obj : ParseInt(k) = i]
            ELSE m[i]]

\* the empty Map / the empty object {}
EmptyMap == [i \in {} |-> "x"]

\* JSON.stringify of an object of entity records gives a text that parses
\* back to that object; Malformed is a text JSON.parse rejects, such as
\* '{"7": "x", not json' (obj: what is legible in it)
JsonStringify(obj) == [parses |-> TRUE, obj |-> obj]
Malformed == [parses |-> FALSE, obj |-> [k \in {<<7>>} |-> "x"]]
JsonParses(text) == text.parses
JsonParse(text) == text.obj

\* buffer.toString('hex') and Buffer.from(text, 'hex'): two hex digits per byte
RECURSIVE ToHex(_)
ToHex(b) ==
    IF Len(b) = 0 THEN <<>>
    ELSE <<b[1] \div 16, b[1] % 16>> \o ToHex(Tail(b))

RECURSIVE FromHex(_)
FromHex(h) ==
    IF Len(h) < 2 THEN <<>>
    ELSE <<16 * h[1] + h[2]>> \o FromHex(SubSeq(h, 3, Len(h)))

\* the sessionData object of a new controller
EmptyData ==
    [authKey |-> None, dcId |-> None, serverAddress |-> None, port |-> None]

\* authKey?.getKey?.(): the key material of the credential object, if any
GetKey(authKey) == IF authKey = None THEN None ELSE Val(authKey).key

(* ------------------ ExtendedMemorySession (the cache) ------------------ *)

\* ent === entity, for two objects
Identical(a, b) == a.ref = b.ref

\* (mutant) getEntityId() that compares the content of the objects
getEntityId_Structural(m, e) ==
    IF \E i \in DOMAIN m : m[i].val = e.val
    THEN {Some(i) : i \in {j \in DOMAIN m : m[j].val = e.val}}
    ELSE {None}

\* getEntityId(entity): the id of the first entry whose value is the object
\* entity, undefined (None) when there is none.  The Map is kept without its
\* insertion order, so this is the set of the ids the loop may stop at.
getEntityId(m, e) ==
    IF \E i \in DOMAIN m : Identical(m[i], e)
    THEN {Some(i) : i \in {j \in DOMAIN m : Identical(m[j], e)}}
    ELSE {None}

\* deleteEntity(id): the Map without the id
deleteEntity(m, id) == [i \in (DOMAIN m) \ {id} |-> m[i]]

\* clearEntities(): the empty Map
clearEntities(m) == [i \in {} |-> "x"]

(* ---------------------- DatabaseManager (the store) -------------------- *)

\* (mutant) a registry call that leaves its handle open
withOwnHandle_Leak(k) == k + 1

\* a registry call opens a handle of its own and closes it in its finally
\* block, whether the statements between return or throw: the number of
\* open handles k of the registry after the call
withOwnHandle(k) == (k + 1) - 1

\* the row of a session name, as SELECT * ... WHERE name = ? returns it
\* (stmt.get gives the first matching row, or none)
loadSessionData(t, n) ==
    IF \E r \in t : r.name = n
    THEN Some(CHOOSE r \in t : r.name = n)
    ELSE None

\* (mutant) a plain INSERT into a table whose name column is not UNIQUE
saveSessionData_Insert(t, n, data, ts) ==
    t \cup
    {[name |-> n, auth_key |-> data.authKey, dc_id |-> data.dcId,
      server_address |-> data.serverAddress, port |-> data.port,
      entities |-> data.entities, created_at |-> ts, updated_at |-> ts]}

\* (mutant) a REPLACE that deletes every row of the table before it inserts
saveSessionData_ReplaceAll(t, n, data, ts) ==
    {[name |-> n, auth_key |-> data.authKey, dc_id |-> data.dcId,
      server_address |-> data.serverAddress, port |-> data.port,
      entities |-> data.entities, created_at |-> ts, updated_at |-> ts]}

\* INSERT OR REPLACE INTO telegram_sessions (name, auth_key, dc_id,
\* server_address, port, entities, updated_at): the UNIQUE constraint on name
\* makes REPLACE delete the row of that name before it inserts the new one;
\* created_at is not in the column list and takes its DEFAULT CURRENT_TIMESTAMP
saveSessionData(t, n, data, ts) ==
    {r \in t : r.name # n} \cup
    {[name |-> n, auth_key |-> data.authKey, dc_id |-> data.dcId,
      server_address |-> data.serverAddress, port |-> data.port,
      entities |-> data.entities, created_at |-> ts, updated_at |-> ts]}

\* (mutant) DELETE FROM telegram_sessions, without the WHERE clause
deleteSessionData_All(t, n) == {}

\* DELETE FROM telegram_sessions WHERE name = ?
deleteSessionData(t, n) == {r \in t : r.name # n}

\* the columns SELECT name, created_at, updated_at gives of a row
listColumns(r) ==
    [name |-> r.name, created_at |-> r.created_at, updated_at |-> r.updated_at]

\* listSessions(): SELECT name, created_at, updated_at FROM telegram_sessions
\* ORDER BY created_at DESC.  SQL leaves the order of rows of equal created_at
\* open, so this is the set of the results the query may give.
listSessions(t) ==
    LET n == Cardinality(t)
    IN  {[i \in 1..n |-> listColumns(f[i])] :
            f \in {g \in [1..n -> t] :
                      /\ \A i, j \in 1..n : i # j => g[i] # g[j]
                      /\ \A i, j \in 1..n :
                            i < j => g[i].created_at >= g[j].created_at}}

\* the classes a static method of the registry is called on
Receivers == {"DatabaseManager", "SqliteSession"}

\* listSessions() begins with this.createDatabase(databasePath): it throws a
\* TypeError unless the class it is called on has a static createDatabase,
\* which DatabaseManager has and SqliteSession, which only holds a reference
\* to the function (static listSessions = DatabaseManager.listSessions), has not
listSessionsRaises(recv) == recv # "DatabaseManager"

(* -------------------- SessionManager (the registry) -------------------- *)

\* sessionExists(databasePath, sessionName): some listed session has the name
sessionExists(n, res) == \E i \in 1..Len(res) : res[i].name = n

\* SessionManager.getSessionInfo(databasePath, sessionName): the times of the
\* listed session of the name, or exists: false
sessionInfo(n, res) ==
    IF \E i \in 1..Len(res) : res[i].name = n
    THEN LET session == res[CHOOSE i \in 1..Len(res) : res[i].name = n]
         IN  [exists |-> TRUE, created_at |-> Some(session.created_at),
              updated_at |-> Some(session.updated_at)]
    ELSE [exists |-> FALSE, created_at |-> None, updated_at |-> None]

(* ------------------- SqliteSession: the pure parts --------------------- *)

\* (mutant) init() that opens a handle at every call
init_Always(h) == [db |-> TRUE, opened |-> 1]

\* init(): opens a handle (and creates the table) if the controller has none;
\* gives the handle field and the number of handles opened
init(h) == IF ~h THEN [db |-> TRUE, opened |-> 1] ELSE [db |-> h, opened |-> 0]

\* (mutant) close() that leaves the handle field as it is
close_Keep(h) == [db |-> h, closed |-> 0]

\* close(): closes the handle if there is one; gives the handle field and the
\* number of handles closed
close(h) == IF h THEN [db |-> FALSE, closed |-> 1] ELSE [db |-> h, closed |-> 0]

\* save(): the values handed to saveSessionData
saveFields(sd, ents) ==
    [authKey |-> GetKey(sd.authKey),
     dcId |-> IF TruthyNum(sd.dcId) THEN sd.dcId ELSE None,
     serverAddress |-> IF TruthyStr(sd.serverAddress) THEN sd.serverAddress ELSE None,
     port |-> IF TruthyNum(sd.port) THEN sd.port ELSE None,
     entities |-> IF DOMAIN ents # {}
                  THEN Some(JsonStringify(FromEntries(ents)))
                  ELSE None]

\* save(): the table after the upsert of the controller's row
save(t, n, sd, ents, ts) == saveSessionData(t, n, saveFields(sd, ents), ts)

\* (mutant) _saveToDB() without the isLoaded guard
saveToDB_Always(loaded, t, h, n, sd, ents, ts) ==
    [table |-> save(t, n, sd, ents, ts), db |-> init(h).db, opened |-> init(h).opened]

\* _saveToDB(): the write-through of a mutator, only when Loaded; gives the
\* table and the controller's handle (save() opens it through init())
saveToDB(loaded, t, h, n, sd, ents, ts) ==
    IF ~loaded
    THEN [table |-> t, db |-> h, opened |-> 0]
    ELSE [table |-> save(t, n, sd, ents, ts), db |-> init(h).db,
          opened |-> init(h).opened]

\* load(): does the row hold key material (row.auth_key && length > 0)
rowHasKey(row) == TruthyObj(row.auth_key) /\ Len(Val(row.auth_key)) > 0

\* (mutant) load() that takes server_address and port as the row has them
loadDC_NoDefaults(sd, row) ==
    IF TruthyNum(row.dc_id)
    THEN [sd EXCEPT !.dcId = row.dc_id,
                    !.serverAddress = row.server_address,
                    !.port = row.port]
    ELSE sd

\* load(): the data-center fields after "if (row.dc_id) { ... }"
loadDC(sd, row) ==
    IF TruthyNum(row.dc_id)
    THEN [sd EXCEPT
            !.dcId = row.dc_id,
            !.serverAddress =
                IF TruthyStr(row.server_address) THEN row.server_address ELSE Some(""),
            !.port = IF TruthyNum(row.port) THEN row.port ELSE Some(443)]
    ELSE sd

\* (mutant) load() that takes what is legible in a text JSON.parse rejects
loadEntities_NoCatch(ents, row) ==
    IF row.entities # None
    THEN SetEntries(ents, JsonParse(Val(row.entities)))
    ELSE ents

\* load(): the entity Map after "if (row.entities) { try { ... } catch {} }"
loadEntities(ents, row) ==
    IF row.entities # None /\ JsonParses(Val(row.entities))
    THEN SetEntries(ents, JsonParse(Val(row.entities)))
    ELSE ents

\* exportToFile(): the exported document
exportDoc(sd, ents, ts) ==
    [dc_id |-> IF TruthyNum(sd.dcId) THEN sd.dcId ELSE Some(0),
     server_address |-> IF TruthyStr(sd.serverAddress) THEN sd.serverAddress ELSE Some(""),
     port |-> IF TruthyNum(sd.port) THEN sd.port ELSE Some(443),
     auth_key |-> IF GetKey(sd.authKey) # None
                  THEN Some(ToHex(Val(GetKey(sd.authKey))))
                  ELSE None,
     entities |-> FromEntries(ents),
     exported_at |-> ts]

\* (mutant) FileExportManager.importFromFile() without the dc_id check
importRaises_MissingOnly(file) == file = None

\* FileExportManager.importFromFile(): does it throw (no file at the path, or
\* a document whose dc_id is not a number)
importRaises(file) == file = None \/ Val(file).dc_id = None

\* importFromFile(): does the document hold a key (if (data.auth_key))
docHasKey(doc) == doc.auth_key # None /\ Len(Val(doc.auth_key)) > 0

\* importFromFile(): the data-center fields taken from the document
importDC(sd, doc) ==
    [sd EXCEPT !.dcId = doc.dc_id,
               !.serverAddress = doc.server_address,
               !.port = doc.port]

\* importFromFile(): clearEntities(), then setEntity for every document entry
importEntities(doc) == SetEntries(EmptyMap, doc.entities)

\* getSessionInfo()
getSessionInfo(n, sd, ents) ==
    [name |-> n,
     dcId |-> IF TruthyNum(sd.dcId) THEN Val(sd.dcId) ELSE 0,
     hasAuth |-> TruthyObj(sd.authKey),
     entitiesCount |-> Cardinality(DOMAIN ents)]

(* ------------------------------ state ---------------------------------- *)

VARIABLES
    sessionName,   \* controller -> its session name (fixed at construction)
    db,            \* controller -> whether it holds an open store handle
    isLoaded,      \* controller -> Loaded (TRUE) or Unloaded (FALSE)
    sessionData,   \* controller -> [authKey, dcId, serverAddress, port]
    entities,      \* controller -> the entity Map (id -> entity)
    pending,       \* controller -> its suspended async calls
    table,         \* the rows of telegram_sessions in the store file
    files,         \* path -> the document in the file, None when no file
    now,           \* CURRENT_TIMESTAMP / new Date()
    overlap,       \* the client makes calls on a controller while an async
                   \*   call of it is suspended (FALSE: it awaits each call)
    lastOp,        \* history: the call or step executed last
    fetched,       \* history: controller -> it has fetched its row since it
                   \*   was constructed or since its last delete()
    savedFrom,     \* history: name -> the memory its row was written from
    exportedFrom,  \* history: path -> the memory its file was written from
    firstCreated,  \* history: name -> when the present row was first saved
    held,          \* history: controller -> the mutations made while
                   \*   Unloaded that are in memory and not in the store
    handles        \* history: controller, or 0 for the registry -> the
                   \*   store handles it has opened and not closed

vars ==
    <<sessionName, db, isLoaded, sessionData, entities, pending, table, files,
      now, overlap, lastOp, fetched, savedFrom, exportedFrom, firstCreated, held,
      handles>>

\* a row written into the store file by another program: key material and a
\* data center without address and port, and an entities text that is no JSON
ExternalRow ==
    [name |-> "a", auth_key |-> Some(<<1, 171>>), dc_id |-> Some(2),
     server_address |-> None, port |-> None, entities |-> Some(Malformed),
     created_at |-> 0, updated_at |-> 0]

\* a file that is no exported session: its document has no numeric dc_id
BadDoc ==
    [dc_id |-> None, server_address |-> Some("h"), port |-> Some(80),
     auth_key |-> None, entities |-> EmptyMap, exported_at |-> 0]

\* a file exported earlier: a data center, a key in hex, one entity
GoodDoc ==
    [dc_id |-> Some(2), server_address |-> Some("h"), port |-> Some(80),
     auth_key |-> Some(ToHex(<<1, 171>>)), entities |-> FromEntries([i \in {12} |-> "x"]),
     exported_at |-> 0]

\* a file exported by a controller without a key
NoKeyDoc ==
    [dc_id |-> Some(2), server_address |-> Some("h"), port |-> Some(80),
     auth_key |-> None, entities |-> FromEntries([i \in {12} |-> "x"]),
     exported_at |-> 0]

\* history records
Snapshot(c) == [by |-> c, data |-> sessionData[c], ents |-> entities[c]]

HasRow(t, n) == \E r \in t : r.name = n
RowOf(t, n) == CHOOSE r \in t : r.name = n

\* the record of a call op on controller c (0: a registry call) for name n
Op(op, c, n) ==
    [op |-> op, c |-> c, name |-> n,
     wasLoaded |-> (c \in Ctrl /\ isLoaded[c]),  \* Loaded when it began
     hadRow |-> HasRow(table, n),   \* the name had a row when it began
     hadHandle |-> (c \in Ctrl /\ db[c]),  \* it had a handle when it began
     raised |-> FALSE,     \* it threw
     wrote |-> FALSE,      \* it executed save()
     carried |-> {},       \* the held mutations its save() wrote
     clean |-> FALSE,      \* an async call: on a fresh controller (load) and
                           \*   with no other call in between
     fetch |-> "none",     \* load(): "first" or "again" when it fetched
     result |-> <<>>,      \* a registry read: what it returned
     row |-> None,         \* load(): the row it fetched, None for no row
     arg |-> None,         \* a read: its argument
     doc |-> None]         \* importFromFile(): the document it read

\* a suspended async call: the method, the await it is suspended at, and its
\* local variable (the fetched row, the parsed document)
Cont(op, at, data, clean) == [op |-> op, at |-> at, data |-> data, clean |-> clean]

\* another call ran on the controller while its async calls were suspended
Disturbed(q) == [i \in 1..Len(q) |-> [q[i] EXCEPT !.clean = FALSE]]

\* the memory of the controller is that of a new controller
IsEmpty(c) == sessionData[c] = EmptyData /\ entities[c] = EmptyMap

\* the client may make a call on controller c now
CanCall(c) == overlap \/ pending[c] = <<>>

RemoveAt(q, i) == SubSeq(q, 1, i - 1) \o SubSeq(q, i + 1, Len(q))

\* the history of the rows after controller c wrote the row of name n
WroteRow(c, n, sd, ents) ==
    /\ savedFrom' = [savedFrom EXCEPT ![n] = Some([by |-> c, data |-> sd, ents |-> ents])]
    /\ firstCreated' =
         [firstCreated EXCEPT ![n] = IF HasRow(table, n) THEN @ ELSE Some(now)]

\* the history of the rows after the row of name n was deleted
DeletedRow(n) ==
    /\ savedFrom' = [savedFrom EXCEPT ![n] = None]
    /\ firstCreated' = [firstCreated EXCEPT ![n] = None]

\* the program starts: the controllers are constructed; the second one has a
\* name of names2; the store file holds one of tables, the path one of docs
Start(ov, names2, tables, docs) ==
    /\ overlap = ov
    /\ sessionName \in {f \in [Ctrl -> Names] : f[1] = "a" /\ f[2] \in names2}
    /\ db = [c \in Ctrl |-> FALSE]
    /\ isLoaded = [c \in Ctrl |-> FALSE]
    /\ sessionData = [c \in Ctrl |-> EmptyData]
    /\ entities = [c \in Ctrl |-> EmptyMap]
    /\ pending = [c \in Ctrl |-> <<>>]
    /\ table \in tables
    /\ files \in [Paths -> docs]
    /\ now = 0
    /\ lastOp = Op("init", 0, "a")
    /\ fetched = [c \in Ctrl |-> FALSE]
    /\ savedFrom = [n \in Names |-> None]
    /\ exportedFrom = [p \in Paths |-> None]
    /\ firstCreated =
         [n \in Names |->
            IF HasRow(table, n) THEN Some(RowOf(table, n).created_at) ELSE None]
    /\ held = [c \in Ctrl |-> {}]
    /\ handles = [w \in Ctrl \cup {0} |-> 0]

(* ------------------------------ actions -------------------------------- *)

\* time passes
Tick ==
    /\ now < MaxTime
    /\ now' = now + 1
    /\ lastOp' = Op("tick", 0, "a")
    /\ UNCHANGED <<sessionName, overlap, handles, db, isLoaded, sessionData, entities, pending,
                   table, files, fetched, savedFrom, exportedFrom,
                   firstCreated, held>>

\* new SqliteSession(databasePath, sessionName) with the name of controller
\* c: the program starts again, or replaces its controller by a new one
New(c) ==
    /\ pending[c] = <<>>
    /\ db' = [db EXCEPT ![c] = FALSE]
    /\ handles' = [handles EXCEPT ![c] = 0]
    /\ isLoaded' = [isLoaded EXCEPT ![c] = FALSE]
    /\ sessionData' = [sessionData EXCEPT ![c] = EmptyData]
    /\ entities' = [entities EXCEPT ![c] = EmptyMap]
    /\ fetched' = [fetched EXCEPT ![c] = FALSE]
    /\ held' = [held EXCEPT ![c] = {}]
    /\ lastOp' = [Op("new", c, sessionName[c]) EXCEPT !.wasLoaded = FALSE]
    /\ UNCHANGED <<sessionName, overlap, pending, table, files, now, savedFrom,
                   exportedFrom, firstCreated>>

\* a mutator's common part: the memory becomes sd, ents; the write-through of
\* _saveToDB() follows when the controller is Loaded; item names the mutation
Mutate(op, c, sd, ents, item) ==
    LET n == sessionName[c]
        loaded == isLoaded[c]
        r == saveToDB(loaded, table, db[c], n, sd, ents, now)
        wrote == loaded
    IN  /\ CanCall(c)
        /\ sessionData' = [sessionData EXCEPT ![c] = sd]
        /\ entities' = [entities EXCEPT ![c] = ents]
        /\ table' = r.table
        /\ db' = [db EXCEPT ![c] = r.db]
        /\ handles' = [handles EXCEPT ![c] = @ + r.opened]
        /\ pending' = [pending EXCEPT ![c] = Disturbed(@)]
        /\ held' = [held EXCEPT ![c] = IF wrote THEN {} ELSE @ \cup {item}]
        /\ IF wrote THEN WroteRow(c, n, sd, ents)
                    ELSE UNCHANGED <<savedFrom, firstCreated>>
        /\ lastOp' = [Op(op, c, n) EXCEPT
                        !.wrote = wrote,
                        !.carried = IF wrote THEN held[c] \ {item} ELSE {}]
        /\ UNCHANGED <<sessionName, overlap, isLoaded, files, now, fetched, exportedFrom>>

\* setDC(dcId, serverAddress, port)
setDC(c, dcId, serverAddress, port) ==
    Mutate("setDC", c,
           [sessionData[c] EXCEPT !.dcId = Some(dcId),
                                  !.serverAddress = Some(serverAddress),
                                  !.port = Some(port)],
           entities[c], <<"dc", 0>>)

\* set authKey(value)
setAuthKey(c, value) ==
    Mutate("authKey", c, [sessionData[c] EXCEPT !.authKey = value],
           entities[c], <<"key", 0>>)

\* setEntity(id, entity)
setEntity(c, id, entity) ==
    Mutate("setEntity", c, sessionData[c],
           [i \in (DOMAIN entities[c]) \cup {id} |->
               IF i = id THEN entity ELSE entities[c][i]],
           <<"ent", id>>)

\* deleteEntity(id) and clearEntities(): inherited from
\* ExtendedMemorySession, which changes the Map and does nothing else
Forget(op, c, ents, items) ==
    /\ CanCall(c)
    /\ entities' = [entities EXCEPT ![c] = ents]
    /\ pending' = [pending EXCEPT ![c] = Disturbed(@)]
    /\ held' = [held EXCEPT ![c] = @ \ items]
    /\ lastOp' = Op(op, c, sessionName[c])
    /\ UNCHANGED <<sessionName, overlap, handles, db, isLoaded, sessionData, table, files,
                   now, fetched, savedFrom, exportedFrom, firstCreated>>

\* deleteEntity(id)
DeleteEntity(c, id) ==
    Forget("deleteEntity", c, deleteEntity(entities[c], id), {<<"ent", id>>})

\* clearEntities()
ClearEntities(c) ==
    Forget("clearEntities", c, clearEntities(entities[c]),
           {x \in held[c] : x[1] = "ent"})

\* getEntityId(entity)
GetEntityId(c, e) ==
    /\ CanCall(c)
    /\ \E res \in getEntityId(entities[c], e) :
          lastOp' = [Op("getEntityId", c, sessionName[c]) EXCEPT
                       !.result = res, !.arg = Some(e)]
    /\ UNCHANGED <<sessionName, overlap, handles, db, isLoaded, sessionData, entities,
                   pending, table, files, now, fetched, savedFrom, exportedFrom,
                   firstCreated, held>>

\* save(), called by the client
Save(c) ==
    LET n == sessionName[c]
    IN  /\ CanCall(c)
        /\ table' = save(table, n, sessionData[c], entities[c], now)
        /\ db' = [db EXCEPT ![c] = init(db[c]).db]
        /\ handles' = [handles EXCEPT ![c] = @ + init(db[c]).opened]
        /\ pending' = [pending EXCEPT ![c] = Disturbed(@)]
        /\ held' = [held EXCEPT ![c] = {}]
        /\ WroteRow(c, n, sessionData[c], entities[c])
        /\ lastOp' = [Op("save", c, n) EXCEPT !.wrote = TRUE, !.carried = held[c]]
        /\ UNCHANGED <<sessionName, overlap, isLoaded, sessionData, entities, files, now,
                       fetched, exportedFrom>>

\* load(), up to its return or its first await
Load(c) ==
    LET n == sessionName[c]
        row == loadSessionData(table, n)
        sd == IF row = None THEN sessionData[c] ELSE loadDC(sessionData[c], Val(row))
        ents == IF row = None THEN entities[c] ELSE loadEntities(entities[c], Val(row))
        suspends == row # None /\ rowHasKey(Val(row))
        op == [Op(IF suspends THEN "loadCall" ELSE "load", c, n) EXCEPT
                 !.fetch = IF fetched[c] THEN "again" ELSE "first",
                 !.clean = IsEmpty(c),
                 !.row = row]
    IN  IF isLoaded[c]
        THEN /\ CanCall(c)
             /\ lastOp' = Op("load", c, n)
             /\ UNCHANGED <<sessionName, overlap, handles, db, isLoaded, sessionData, entities,
                            pending, table, files, now, fetched,
                            savedFrom, exportedFrom, firstCreated, held>>
        ELSE /\ CanCall(c)
             /\ suspends => Len(pending[c]) < MaxPending
             /\ db' = [db EXCEPT ![c] = init(db[c]).db]
             /\ handles' = [handles EXCEPT ![c] = @ + init(db[c]).opened]
             /\ fetched' = [fetched EXCEPT ![c] = TRUE]
             /\ lastOp' = op
             /\ IF suspends
                THEN /\ pending' = [pending EXCEPT ![c] =
                            Append(Disturbed(@), Cont("load", "import", Val(row), IsEmpty(c)))]
                     /\ UNCHANGED <<isLoaded, sessionData, entities, held>>
                ELSE /\ pending' = [pending EXCEPT ![c] = Disturbed(@)]
                     /\ isLoaded' = [isLoaded EXCEPT ![c] = TRUE]
                     /\ sessionData' = [sessionData EXCEPT ![c] = sd]
                     /\ entities' = [entities EXCEPT ![c] = ents]
                     /\ held' = [held EXCEPT ![c] =
                            {x \in @ : /\ x = <<"dc", 0>> => sd = sessionData[c]
                                       /\ x[1] = "ent" => ents[x[2]] = entities[c][x[2]]}]
             /\ UNCHANGED <<sessionName, overlap, table, files, now, savedFrom,
                            exportedFrom, firstCreated>>

\* a suspended call resumes after "await import('telegram/crypto/AuthKey')":
\* it makes a new AuthKey, gives it the key material and awaits setKey
ResumeImport(c, i) ==
    LET k == pending[c][i]
        bytes == IF k.op = "load" THEN Val(k.data.auth_key)
                 ELSE FromHex(Val(k.data.auth_key))
        q == [Disturbed(pending[c]) EXCEPT ![i] = [k EXCEPT !.at = "setKey"]]
    IN  /\ i \in 1..Len(pending[c])
        /\ k.at = "import"
        /\ sessionData' = [sessionData EXCEPT ![c].authKey = Some(AuthKeyObj(Some(bytes)))]
        /\ pending' = [pending EXCEPT ![c] = q]
        /\ held' = [held EXCEPT ![c] = @ \ {<<"key", 0>>}]
        /\ lastOp' = Op(IF k.op = "load" THEN "loadKey" ELSE "importKey", c, sessionName[c])
        /\ UNCHANGED <<sessionName, overlap, handles, db, isLoaded, entities, table, files, now,
                       fetched, savedFrom, exportedFrom, firstCreated>>

\* load() resumes after "await authKey.setKey(row.auth_key)" and runs to its end
ResumeLoad(c, i) ==
    LET k == pending[c][i]
        n == sessionName[c]
        row == k.data
        sd == loadDC(sessionData[c], row)
        ents == loadEntities(entities[c], row)
        \* every setEntity of the loop writes through when already Loaded
        loops == row.entities # None /\ JsonParses(Val(row.entities))
                 /\ DOMAIN JsonParse(Val(row.entities)) # {}
        r == IF loops
             THEN saveToDB(isLoaded[c], table, db[c], n, sd, ents, now)
             ELSE [table |-> table, db |-> db[c], opened |-> 0]
        wrote == loops /\ isLoaded[c]
        kept == {x \in held[c] : /\ x = <<"dc", 0>> => sd = sessionData[c]
                                 /\ x[1] = "ent" => ents[x[2]] = entities[c][x[2]]}
    IN  /\ i \in 1..Len(pending[c])
        /\ k.op = "load" /\ k.at = "setKey"
        /\ sessionData' = [sessionData EXCEPT ![c] = sd]
        /\ entities' = [entities EXCEPT ![c] = ents]
        /\ isLoaded' = [isLoaded EXCEPT ![c] = TRUE]
        /\ table' = r.table
        /\ db' = [db EXCEPT ![c] = r.db]
        /\ handles' = [handles EXCEPT ![c] = @ + r.opened]
        /\ pending' = [pending EXCEPT ![c] = Disturbed(RemoveAt(@, i))]
        /\ held' = [held EXCEPT ![c] = IF wrote THEN {} ELSE kept]
        /\ IF wrote THEN WroteRow(c, n, sd, ents)
                    ELSE UNCHANGED <<savedFrom, firstCreated>>
        /\ lastOp' = [Op("load", c, n) EXCEPT
                        !.clean = k.clean, !.wrote = wrote,
                        !.carried = IF wrote THEN kept ELSE {},
                        !.row = Some(row)]
        /\ UNCHANGED <<sessionName, overlap, files, now, fetched, exportedFrom>>

\* exportToFile(filePath)
ExportToFile(c, p) ==
    /\ CanCall(c)
    /\ files' = [files EXCEPT ![p] = Some(exportDoc(sessionData[c], entities[c], now))]
    /\ exportedFrom' = [exportedFrom EXCEPT ![p] = Some(Snapshot(c))]
    /\ pending' = [pending EXCEPT ![c] = Disturbed(@)]
    /\ lastOp' = Op("exportToFile", c, sessionName[c])
    /\ UNCHANGED <<sessionName, overlap, handles, db, isLoaded, sessionData, entities, table, now,
                   fetched, savedFrom, firstCreated, held>>

\* importFromFile(): from "this.sessionData.dcId = data.dc_id" to its end, on
\* the document doc
ImportRest(c, doc, clean) ==
    LET n == sessionName[c]
        sd == importDC(sessionData[c], doc)
        ents == importEntities(doc)
    IN  /\ sessionData' = [sessionData EXCEPT ![c] = sd]
        /\ entities' = [entities EXCEPT ![c] = ents]
        /\ table' = save(table, n, sd, ents, now)
        /\ db' = [db EXCEPT ![c] = init(db[c]).db]
        /\ handles' = [handles EXCEPT ![c] = @ + init(db[c]).opened]
        /\ held' = [held EXCEPT ![c] = {}]
        /\ WroteRow(c, n, sd, ents)
        /\ lastOp' = [Op("importFromFile", c, n) EXCEPT
                        !.wrote = TRUE, !.clean = clean,
                        !.carried = held[c] \cap {<<"key", 0>>},
                        !.doc = Some(doc)]
        /\ UNCHANGED <<sessionName, overlap, isLoaded, files, now, fetched, exportedFrom>>

\* importFromFile(filePath), up to its return, its throw or its first await
ImportFromFile(c, p) ==
    LET file == files[p]
    IN  IF importRaises(file)
        THEN /\ CanCall(c)
             /\ lastOp' = [Op("importFromFile", c, sessionName[c]) EXCEPT !.raised = TRUE]
             /\ UNCHANGED <<sessionName, overlap, handles, db, isLoaded, sessionData, entities,
                            pending, table, files, now, fetched,
                            savedFrom, exportedFrom, firstCreated, held>>
        ELSE IF docHasKey(Val(file))
        THEN /\ CanCall(c)
             /\ Len(pending[c]) < MaxPending
             /\ pending' = [pending EXCEPT ![c] =
                    Append(Disturbed(@), Cont("import", "import", Val(file), TRUE))]
             /\ lastOp' = Op("importCall", c, sessionName[c])
             /\ UNCHANGED <<sessionName, overlap, handles, db, isLoaded, sessionData, entities,
                            table, files, now, fetched, savedFrom,
                            exportedFrom, firstCreated, held>>
        ELSE /\ CanCall(c)
             /\ pending' = [pending EXCEPT ![c] = Disturbed(@)]
             /\ ImportRest(c, Val(file), TRUE)

\* importFromFile() resumes after "await authKey.setKey(...)" and runs to its end
ResumeImportFile(c, i) ==
    LET k == pending[c][i]
    IN  /\ i \in 1..Len(pending[c])
        /\ k.op = "import" /\ k.at = "setKey"
        /\ pending' = [pending EXCEPT ![c] = Disturbed(RemoveAt(@, i))]
        /\ ImportRest(c, k.data, k.clean)

\* (mutant) deleteSession() that deletes nothing
deleteSession_Noop(t, n) == t

\* SessionManager.deleteSession(databasePath, sessionName): on a handle of its
\* own, closed before it returns
deleteSession(t, n) == deleteSessionData(t, n)

\* delete()
Delete(c) ==
    LET n == sessionName[c]
    IN  /\ CanCall(c)
        /\ table' = deleteSession(table, n)
        /\ isLoaded' = [isLoaded EXCEPT ![c] = FALSE]
        /\ pending' = [pending EXCEPT ![c] = Disturbed(@)]
        /\ fetched' = [fetched EXCEPT ![c] = FALSE]
        /\ DeletedRow(n)
        /\ lastOp' = Op("delete", c, n)
        /\ handles' = [handles EXCEPT ![0] = withOwnHandle(@)]
        /\ UNCHANGED <<sessionName, overlap, db, sessionData, entities, files, now,
                       exportedFrom, held>>

\* SqliteSession.deleteSession(databasePath, name), the registry call
DeleteSession(n) ==
    /\ table' = deleteSession(table, n)
    /\ DeletedRow(n)
    /\ lastOp' = Op("deleteSession", 0, n)
    /\ handles' = [handles EXCEPT ![0] = withOwnHandle(@)]
    /\ UNCHANGED <<sessionName, overlap, db, isLoaded, sessionData, entities, pending,
                   files, now, fetched, exportedFrom, held>>

\* close()
Close(c) ==
    /\ CanCall(c)
    /\ db' = [db EXCEPT ![c] = close(db[c]).db]
    /\ handles' = [handles EXCEPT ![c] = @ - close(db[c]).closed]
    /\ lastOp' = Op("close", c, sessionName[c])
    /\ UNCHANGED <<sessionName, overlap, isLoaded, sessionData, entities, pending, table,
                   files, now, fetched, savedFrom, exportedFrom,
                   firstCreated, held>>

\* what a registry call leaves alone: the controllers and the store
RegistryFrame ==
    UNCHANGED <<sessionName, overlap, db, isLoaded, sessionData, entities, pending,
                table, files, now, fetched, savedFrom, exportedFrom,
                firstCreated, held>>

\* listSessions(databasePath), called on the class recv: as
\* DatabaseManager.listSessions(path) or as SqliteSession.listSessions(path)
ListSessions(recv) ==
    /\ IF listSessionsRaises(recv)
       THEN /\ lastOp' = [Op("listSessions", 0, "a") EXCEPT
                            !.raised = TRUE, !.arg = Some(recv)]
            /\ UNCHANGED handles
       ELSE /\ \E res \in listSessions(table) :
                  lastOp' = [Op("listSessions", 0, "a") EXCEPT
                               !.result = res, !.arg = Some(recv)]
            /\ handles' = [handles EXCEPT ![0] = withOwnHandle(@)]
    /\ RegistryFrame

\* SqliteSession.sessionExists(databasePath, name): SessionManager.sessionExists,
\* which calls DatabaseManager.listSessions
SessionExists(n) ==
    /\ \E res \in listSessions(table) :
          lastOp' = [Op("sessionExists", 0, n) EXCEPT
                       !.result = Some(sessionExists(n, res))]
    /\ handles' = [handles EXCEPT ![0] = withOwnHandle(@)]
    /\ RegistryFrame

\* SqliteSession.getSessionInfo(databasePath, name): SessionManager.getSessionInfo,
\* which calls DatabaseManager.listSessions
GetSessionInfo(n) ==
    /\ \E res \in listSessions(table) :
          lastOp' = [Op("getSessionInfo", 0, n) EXCEPT
                       !.result = Some(sessionInfo(n, res))]
    /\ handles' = [handles EXCEPT ![0] = withOwnHandle(@)]
    /\ RegistryFrame

(* --------------------------- specifications ---------------------------- *)

\* One controller at a time (New replaces it), whose client awaits every
\* async call, and the registry; the file at the path is not written.
Init == Start(FALSE, {"a"}, {{}, {ExternalRow}}, {None, Some(BadDoc), Some(GoodDoc)})

Next ==
    \/ \E c \in {1} : New(c)
    \/ \E c \in {1}, dc \in DcInputs : setDC(c, dc[1], dc[2], dc[3])
    \/ \E c \in {1}, k \in AuthKeyInputs : setAuthKey(c, k)
    \/ \E c \in {1}, i \in EntityIds, e \in EntityVals : setEntity(c, i, e)
    \/ \E c \in {1} : Save(c)
    \/ \E c \in {1} : Load(c)
    \/ \E c \in {1}, i \in 1..MaxPending : ResumeImport(c, i)
    \/ \E c \in {1}, i \in 1..MaxPending : ResumeLoad(c, i)
    \/ \E c \in {1}, p \in Paths : ImportFromFile(c, p)
    \/ \E c \in {1}, i \in 1..MaxPending : ResumeImportFile(c, i)
    \/ \E c \in {1} : Delete(c)
    \/ \E c \in {1} : Close(c)
    \/ \E n \in Names : DeleteSession(n)

Spec == Init /\ [][Next]_vars

\* The clock: one controller changes its memory, saves and deletes as time
\* passes.
InitClock == Start(FALSE, {"a"}, {{}, {ExternalRow}}, {None})

NextClock ==
    \/ Tick
    \/ \E c \in {1}, dc \in DcInputs : setDC(c, dc[1], dc[2], dc[3])
    \/ \E c \in {1}, i \in EntityIds, e \in EntityVals : setEntity(c, i, e)
    \/ \E c \in {1}, i \in EntityIds : DeleteEntity(c, i)
    \/ \E c \in {1} : ClearEntities(c)
    \/ \E c \in {1} : Save(c)
    \/ \E c \in {1} : Load(c)
    \/ \E c \in {1}, i \in 1..MaxPending : ResumeImport(c, i)
    \/ \E c \in {1}, i \in 1..MaxPending : ResumeLoad(c, i)
    \/ \E c \in {1} : Delete(c)
    \/ \E n \in Names : DeleteSession(n)

SpecClock == InitClock /\ [][NextClock]_vars

\* Export and import: one controller at a time writes and reads the file.
InitFile == Start(FALSE, {"a"}, {{}}, {None, Some(BadDoc)})

NextFile ==
    \/ \E c \in {1} : New(c)
    \/ \E c \in {1}, dc \in DcInputs : setDC(c, dc[1], dc[2], dc[3])
    \/ \E c \in {1}, k \in AuthKeyInputs : setAuthKey(c, k)
    \/ \E c \in {1}, i \in EntityIds, e \in EntityVals : setEntity(c, i, e)
    \/ \E c \in {1}, p \in Paths : ExportToFile(c, p)
    \/ \E c \in {1}, p \in Paths : ImportFromFile(c, p)
    \/ \E c \in {1}, i \in 1..MaxPending : ResumeImport(c, i)
    \/ \E c \in {1}, i \in 1..MaxPending : ResumeImportFile(c, i)

SpecFile == InitFile /\ [][NextFile]_vars

\* Overlapping calls: the client does not await load() before its next call.
InitOverlap == Start(TRUE, {"a"}, {{}, {ExternalRow}}, {None})

NextOverlap ==
    \/ \E c \in {1}, dc \in {<<2, "h", 80>>} : setDC(c, dc[1], dc[2], dc[3])
    \/ \E c \in {1}, i \in {7}, e \in EntityVals : setEntity(c, i, e)
    \/ \E c \in {1} : Save(c)
    \/ \E c \in {1} : Load(c)
    \/ \E c \in {1}, i \in 1..MaxPending : ResumeImport(c, i)
    \/ \E c \in {1}, i \in 1..MaxPending : ResumeLoad(c, i)
    \/ \E c \in {1} : Delete(c)

SpecOverlap == InitOverlap /\ [][NextOverlap]_vars

\* Two controllers, of one name or of two, and the registry; no key material,
\* so that every call runs to its end without suspending.
InitTwo == Start(FALSE, Names, {{}}, {Some(NoKeyDoc)})

NextTwo ==
    \/ \E c \in Ctrl, dc \in {<<2, "h", 80>>} : setDC(c, dc[1], dc[2], dc[3])
    \/ \E c \in Ctrl, i \in {7}, e \in EntityVals : setEntity(c, i, e)
    \/ \E c \in Ctrl : Save(c)
    \/ \E c \in Ctrl : Load(c)
    \/ \E c \in Ctrl, p \in Paths : ImportFromFile(c, p)
    \/ \E c \in Ctrl : Delete(c)
    \/ \E n \in Names : DeleteSession(n)

SpecTwo == InitTwo /\ [][NextTwo]_vars

\* Two names and the clock: two controllers of two names work on one store
\* file as time passes, and the registry deletes from and lists the store.
InitList == Start(FALSE, {"b"}, {{}}, {Some(NoKeyDoc)})

NextList ==
    \/ Tick
    \/ \E c \in Ctrl, dc \in {<<2, "h", 80>>} : setDC(c, dc[1], dc[2], dc[3])
    \/ \E c \in Ctrl : Save(c)
    \/ \E c \in Ctrl : Load(c)
    \/ \E c \in Ctrl, p \in Paths : ImportFromFile(c, p)
    \/ \E c \in Ctrl : Delete(c)
    \/ \E n \in Names : DeleteSession(n)
    \/ \E recv \in Receivers : ListSessions(recv)
    \/ \E n \in Names : SessionExists(n)
    \/ \E n \in Names : GetSessionInfo(n)

SpecList == InitList /\ [][NextList]_vars

\* The race: two controllers of one name, each with its own memory, write
\* the one row in any order.
InitRace == Start(FALSE, {"a"}, {{}}, {None})

NextRace ==
    \/ \E dc \in {<<2, "h", 80>>} : setDC(1, dc[1], dc[2], dc[3])
    \/ \E dc \in {<<2, "h", 0>>} : setDC(2, dc[1], dc[2], dc[3])
    \/ \E c \in Ctrl, k \in AuthKeyInputs \ {None} : setAuthKey(c, k)
    \/ \E c \in Ctrl, i \in {7}, e \in EntityVals : setEntity(c, i, e)
    \/ \E c \in Ctrl : Save(c)
    \/ \E c \in Ctrl : Load(c)
    \/ \E c \in Ctrl, i \in 1..MaxPending : ResumeImport(c, i)
    \/ \E c \in Ctrl, i \in 1..MaxPending : ResumeLoad(c, i)

SpecRace == InitRace /\ [][NextRace]_vars

\* The cache: one controller sets, deletes, clears and looks up entity
\* objects.
InitCache == Start(FALSE, {"a"}, {{}}, {None})

NextCache ==
    \/ \E c \in {1}, i \in CacheIds, e \in EntityObjects : setEntity(c, i, e)
    \/ \E c \in {1}, i \in CacheIds : DeleteEntity(c, i)
    \/ \E c \in {1} : ClearEntities(c)
    \/ \E c \in {1}, e \in EntityObjects : GetEntityId(c, e)

SpecCache == InitCache /\ [][NextCache]_vars

(* ------------------------------- claims -------------------------------- *)

Mutators == {"setDC", "authKey", "setEntity"}

\* the entities column of row r holds the entity Map ents: NULL for the empty
\* Map, else a text that parses back to the whole Map
RowHoldsEntities(r, ents) ==
    IF DOMAIN ents = {}
    THEN r.entities = None
    ELSE /\ r.entities # None
         /\ JsonParses(Val(r.entities))
         /\ SetEntries(EmptyMap, JsonParse(Val(r.entities))) = ents

\* the name of controller c has one row, and it holds the memory of c: the key
\* bytes, the data-center fields as they are in memory and the entity Map
RowHoldsMemory(c) ==
    LET n == sessionName[c]
        sd == sessionData[c]
    IN  /\ Cardinality({r \in table : r.name = n}) = 1
        /\ LET r == RowOf(table, n)
           IN  /\ r.auth_key = GetKey(sd.authKey)
               /\ r.dc_id = sd.dcId
               /\ r.server_address = sd.serverAddress
               /\ r.port = sd.port
               /\ RowHoldsEntities(r, entities[c])

\* the same, but for a data-center field that is 0 or '' in memory, whose
\* column is NULL
RowHoldsTruthyMemory(c) ==
    LET n == sessionName[c]
        sd == sessionData[c]
    IN  /\ Cardinality({r \in table : r.name = n}) = 1
        /\ LET r == RowOf(table, n)
           IN  /\ r.auth_key = GetKey(sd.authKey)
               /\ r.dc_id = IF TruthyNum(sd.dcId) THEN sd.dcId ELSE None
               /\ r.server_address =
                    IF TruthyStr(sd.serverAddress) THEN sd.serverAddress ELSE None
               /\ r.port = IF TruthyNum(sd.port) THEN sd.port ELSE None
               /\ RowHoldsEntities(r, entities[c])

\* C1: when a mutator (setDC, the authKey setter, setEntity) called on a Loaded
\* controller returns, the row of the controller's name holds the complete
\* in-memory state: the in-memory dcId, serverAddress and port, the key bytes
\* and the whole entity Map.
C1_WriteThrough ==
    (lastOp.op \in Mutators /\ lastOp.wasLoaded) => RowHoldsMemory(lastOp.c)

\* C1 up to the columns of 0 and '': every mutator call on a Loaded controller
\* is written before it returns, and only a data-center field that is 0 or ''
\* in memory differs from its column
C1_WriteThroughTruthy ==
    (lastOp.op \in Mutators /\ lastOp.wasLoaded) => RowHoldsTruthyMemory(lastOp.c)

\* the memory snapshot snap holds a data center, key bytes and entities
FullRecord(snap) ==
    /\ snap.data.dcId # None /\ snap.data.serverAddress # None
    /\ snap.data.port # None
    /\ GetKey(snap.data.authKey) # None
    /\ DOMAIN snap.ents # {}

\* C2: save() of a Session Record with a non-empty entity Map, a key and any
\* dcId, serverAddress and port, followed by load() on a new controller of the
\* same name, leaves the new controller with the same dcId, serverAddress,
\* port, entities and key bytes.
C2_SaveLoadRoundTrip ==
    LET c == lastOp.c
        n == sessionName[c]
    IN  (/\ lastOp.op = "load" /\ lastOp.clean
         /\ savedFrom[n] # None
         /\ FullRecord(Val(savedFrom[n])))
        => LET snap == Val(savedFrom[n])
           IN  /\ sessionData[c].dcId = snap.data.dcId
               /\ sessionData[c].serverAddress = snap.data.serverAddress
               /\ sessionData[c].port = snap.data.port
               /\ entities[c] = snap.ents
               /\ GetKey(sessionData[c].authKey) = GetKey(snap.data.authKey)

\* C3: without a delete(), a controller fetches its row once, by its first
\* load(); no later load() call fetches, also not one made while the first is
\* suspended.
C3_LoadOnce == lastOp.fetch # "again"

\* C4, first part: a mutator called on an Unloaded controller leaves the table
\* unchanged and opens no store handle.
UnloadedMutatorFrame ==
    (lastOp'.op \in Mutators /\ ~lastOp'.wasLoaded)
        => (table' = table /\ db' = db)

C5_CreatedAtKept ==
    \A r \in table : firstCreated[r.name] = Some(r.created_at)

\* C6: the table holds at most one row per session name.
C6_UniqueName ==
    \A n \in Names : Cardinality({r \in table : r.name = n}) <= 1

\* C6 witness: both names have a row, the last call wrote one of them over an
\* existing row
C6_Witness ==
    /\ \A n \in Names : HasRow(table, n)
    /\ lastOp.wrote /\ lastOp.hadRow

\* C7, first part: when delete() returns, the name has no row and the
\* controller is Unloaded.
AfterDelete ==
    lastOp.op = "delete" => (~HasRow(table, lastOp.name) /\ ~isLoaded[lastOp.c])

\* the step gives a row to a name that had none
RowAppears == \E n \in Names : ~HasRow(table, n) /\ HasRow(table', n)

\* C7 as stated: after delete() the name has no row and the controller is
\* Unloaded; the row stays absent until an explicit save() or a mutation
\* after a new load().
C7_AbsentUntilSaveOrLoad ==
    /\ []AfterDelete
    /\ [][RowAppears =>
            \/ lastOp'.op = "save"
            \/ (lastOp'.op \in Mutators /\ lastOp'.wasLoaded)]_vars

\* C7 as amended: after delete() the name has no row and the controller is
\* Unloaded; the row stays absent until a save() for that name: an explicit
\* save(), the save() that ends importFromFile(), or the write-through of a
\* call on a controller that is Loaded.
C7_Delete ==
    /\ []AfterDelete
    /\ [][RowAppears =>
            \/ lastOp'.op \in {"save", "importFromFile"}
            \/ (lastOp'.op \in Mutators \cup {"load"} /\ lastOp'.wasLoaded)]_vars

\* C7 witness: delete() has returned on a controller that was Loaded and
\* whose name had a row
C7_Witness == lastOp.op = "delete" /\ lastOp.hadRow /\ lastOp.wasLoaded

\* C8: deleting a name that has no row, by deleteSession() or by delete(),
\* does not raise and leaves the table unchanged.
C8_IdempotentDelete ==
    [][(lastOp'.op \in {"delete", "deleteSession"} /\ ~HasRow(table, lastOp'.name))
         => (table' = table /\ ~lastOp'.raised)]_vars

\* C8 witness: a delete of a name without a row has returned while the table
\* holds a row of another name
C8_Witness ==
    /\ lastOp.op \in {"delete", "deleteSession"} /\ ~lastOp.hadRow
    /\ table # {}

\* the file at path p is missing or its document has no numeric dc_id
BadFile(p) == files[p] = None \/ Val(files[p]).dc_id = None

\* C9: importFromFile() of a missing file or of a document without a numeric
\* dc_id raises, and a raising importFromFile() leaves the memory, the
\* Loaded/Unloaded state and the table unchanged.
C9_ImportFailure ==
    [][/\ (/\ lastOp'.op \in {"importFromFile", "importCall"}
           /\ pending[lastOp'.c] = <<>>
           /\ \A p \in Paths : BadFile(p))
          => lastOp'.raised
       /\ (lastOp'.op = "importFromFile" /\ lastOp'.raised)
          => UNCHANGED <<sessionData, entities, isLoaded, table>>]_vars

\* C9 witness: importFromFile() has raised on a Loaded controller that holds
\* entities and whose name has a row
C9_Witness ==
    /\ lastOp.op = "importFromFile" /\ lastOp.raised
    /\ isLoaded[lastOp.c] /\ DOMAIN entities[lastOp.c] # {}
    /\ HasRow(table, lastOp.name)

\* the memory snapshot snap holds a data-center triple and key bytes
TripleAndKey(snap) ==
    /\ snap.data.dcId # None /\ snap.data.serverAddress # None
    /\ snap.data.port # None
    /\ GetKey(snap.data.authKey) # None

\* C10: exportToFile(p) of a controller that holds a data-center triple, a key
\* and entities, followed by importFromFile(p), gives a controller whose
\* getSessionInfo() has hasAuth true and the exported number of entities, and
\* whose dcId, serverAddress and port are the exported ones.
C10_ExportImportRoundTrip ==
    \A p \in Paths :
        LET c == lastOp.c
        IN  (/\ lastOp.op = "importFromFile" /\ ~lastOp.raised /\ lastOp.clean
             /\ exportedFrom[p] # None
             /\ TripleAndKey(Val(exportedFrom[p])))
            => LET snap == Val(exportedFrom[p])
                   info == getSessionInfo(sessionName[c], sessionData[c], entities[c])
               IN  /\ info.hasAuth
                   /\ info.entitiesCount = Cardinality(DOMAIN snap.ents)
                   /\ sessionData[c].dcId = snap.data.dcId
                   /\ sessionData[c].serverAddress = snap.data.serverAddress
                   /\ sessionData[c].port = snap.data.port

\* res lists every row of the table exactly once
ListsEveryRowOnce(res) ==
    /\ Len(res) = Cardinality(table)
    /\ \A r \in table : \E i \in 1..Len(res) : res[i] = listColumns(r)

\* C11: DatabaseManager.listSessions() returns every row exactly once, and a
\* session whose name was first saved later comes before one whose name was
\* first saved earlier, whatever saves of those names followed.
C11_ListOrder ==
    (lastOp.op = "listSessions" /\ lastOp.arg = Some("DatabaseManager")) =>
        /\ ~lastOp.raised
        /\ ListsEveryRowOnce(lastOp.result)
        /\ \A i, j \in 1..Len(lastOp.result) :
              i < j => Val(firstCreated[lastOp.result[i].name])
                         >= Val(firstCreated[lastOp.result[j].name])

\* C11 for the call as SqliteSession exposes it: listSessions() returns
C11_PublicCallReturns == lastOp.op = "listSessions" => ~lastOp.raised

\* C11 up to the created_at column: DatabaseManager.listSessions() returns
\* every row exactly once, by created_at column descending
C11_ListByColumn ==
    (lastOp.op = "listSessions" /\ ~lastOp.raised) =>
        /\ ListsEveryRowOnce(lastOp.result)
        /\ \A i, j \in 1..Len(lastOp.result) :
              i < j => lastOp.result[i].created_at >= lastOp.result[j].created_at

\* the row's entities column holds a text that is not valid JSON
MalformedEntities(row) == row.entities # None /\ ~JsonParses(Val(row.entities))

\* C12: load() of a row whose entities column is not valid JSON, on a
\* controller with nothing in memory, does not raise: it completes, the
\* controller is Loaded, its entity Map is empty, and the key and the
\* data-center fields of the row are in memory.
C12_MalformedEntities ==
    LET c == lastOp.c
    IN  (/\ lastOp.op = "load" /\ lastOp.clean
         /\ lastOp.row # None /\ MalformedEntities(Val(lastOp.row)))
        => LET row == Val(lastOp.row)
           IN  /\ ~lastOp.raised
               /\ isLoaded[c]
               /\ entities[c] = EmptyMap
               /\ rowHasKey(row) => GetKey(sessionData[c].authKey) = row.auth_key
               /\ TruthyNum(row.dc_id) =>
                     /\ sessionData[c].dcId = row.dc_id
                     /\ sessionData[c].serverAddress # None
                     /\ sessionData[c].port # None

\* C12 witness: load() has completed on a row with key material, a data
\* center and an entities text that is not valid JSON
C12_Witness ==
    /\ lastOp.op = "load" /\ lastOp.clean
    /\ lastOp.row # None /\ MalformedEntities(Val(lastOp.row))
    /\ rowHasKey(Val(lastOp.row)) /\ TruthyNum(Val(lastOp.row).dc_id)

\* the rows of t of the names other than n
OtherRows(t, n) == {r \in t : r.name # n}

\* C13: a controller operation or registry call for one session name leaves
\* the rows of every other name as they are: their fields, created_at,
\* updated_at and their presence.
C13_NameIsolation ==
    [][OtherRows(table', lastOp'.name) = OtherRows(table, lastOp'.name)]_vars

\* C13 witness: a call has written or deleted the row of its name, at a time
\* later than the last save of a row of another name
C13_Witness ==
    /\ lastOp.hadRow
    /\ lastOp.wrote \/ lastOp.op \in {"delete", "deleteSession"}
    /\ \E r \in OtherRows(table, lastOp.name) : r.updated_at < now

\* a controller has no more than one open handle, the one in its db field
OneHandle == \A c \in Ctrl : handles[c] <= 1 /\ (db[c] <=> handles[c] = 1)

\* construction opens no handle
NoHandleAtConstruction ==
    /\ lastOp.op = "init" => \A c \in Ctrl : handles[c] = 0 /\ ~db[c]
    /\ lastOp.op = "new" => (handles[lastOp.c] = 0 /\ ~db[lastOp.c])

\* a handle is opened only by load(), by save() (also the one importFromFile()
\* ends with) and by a mutation that is written through
OpenedLazily ==
    \A c \in Ctrl :
        handles'[c] > handles[c] =>
            /\ lastOp'.c = c
            /\ \/ lastOp'.op \in {"load", "loadCall", "save", "importFromFile"}
               \/ (lastOp'.op \in Mutators /\ lastOp'.wasLoaded)

\* close() leaves the controller without a handle, changes nothing else, and
\* changes nothing at all when there is no handle
CloseReleases ==
    \A c \in Ctrl :
        (lastOp'.op = "close" /\ lastOp'.c = c) =>
            /\ ~db'[c] /\ handles'[c] = 0
            /\ UNCHANGED <<sessionData, entities, isLoaded, pending, table, files>>
            /\ ~db[c] => UNCHANGED <<db, handles>>

\* an operation that needs the store and finds no handle opens one and does
\* what it does with a handle: a save writes the whole memory to the row of
\* the name, a fetching load() gets the row of the name
Reopens ==
    \A c \in Ctrl :
        (lastOp'.c = c /\ ~db[c]) =>
            /\ lastOp'.wrote => (db'[c] /\ RowHoldsTruthyMemory(c)')
            /\ lastOp'.fetch # "none" =>
                  (db'[c] /\ lastOp'.row = loadSessionData(table, sessionName[c]))

\* C14: construction opens no handle; a controller holds at most one open
\* handle, opened by load(), save() or a written-through mutation; close()
\* leaves it without a handle and does nothing when it has none; an operation
\* that needs the store after close() opens a handle again and has the effect
\* on memory and store it has with a handle.
C14_HandleLifecycle ==
    /\ []NoHandleAtConstruction
    /\ []OneHandle
    /\ [][OpenedLazily /\ CloseReleases /\ Reopens]_vars

\* C14 witness: a mutator on a Loaded controller that was closed has written
\* the row through a handle it opened again
C14_Witness ==
    /\ lastOp.op \in Mutators /\ lastOp.wasLoaded /\ ~lastOp.hadHandle
    /\ lastOp.wrote /\ db[lastOp.c] /\ handles[lastOp.c] = 1

\* both controllers are Loaded and have the same session name
TwoLoaded ==
    /\ \A c \in Ctrl : isLoaded[c]
    /\ \A c, d \in Ctrl : sessionName[c] = sessionName[d]

\* C15: with two Loaded controllers of one name, after every write (a mutator
\* or a save() of either) the row equals the complete memory of the
\* controller that wrote: its dcId, serverAddress, port, key and entities.
C15_LastWriterWins ==
    (TwoLoaded /\ lastOp.wrote) => RowHoldsMemory(lastOp.c)

\* C15 up to the columns of 0 and '': the row is the writer's whole memory,
\* never a mix of the two memories, and only a data-center field that is 0 or
\* '' in the writer's memory differs from its column
C15_LastWriterWinsTruthy ==
    (TwoLoaded /\ lastOp.wrote) => RowHoldsTruthyMemory(lastOp.c)

\* the two memories differ in the key, the data center and the entities, and
\* the last call wrote over a row
C15_Reached ==
    /\ TwoLoaded /\ lastOp.wrote /\ lastOp.hadRow
    /\ sessionData[1].authKey # sessionData[2].authKey
    /\ sessionData[1].port # sessionData[2].port
    /\ sessionData[1].port # None /\ sessionData[2].port # None
    /\ entities[1] # entities[2]

\* C16: getEntityId(e) returns an id under which the very object e is stored,
\* and undefined when no stored value is the object e, also when a distinct
\* object of equal content is stored.
C16_IdentityLookup ==
    lastOp.op = "getEntityId" =>
        LET m == entities[lastOp.c]
            e == Val(lastOp.arg)
        IN  IF \E i \in DOMAIN m : Identical(m[i], e)
            THEN /\ lastOp.result # None
                 /\ Val(lastOp.result) \in DOMAIN m
                 /\ Identical(m[Val(lastOp.result)], e)
            ELSE lastOp.result = None

\* C16 witness: getEntityId(e) has returned undefined while a distinct object
\* of the content of e is stored
C16_Witness ==
    /\ lastOp.op = "getEntityId" /\ lastOp.result = None
    /\ \E i \in DOMAIN entities[lastOp.c] :
          entities[lastOp.c][i].val = Val(lastOp.arg).val

\* getEntityId(e) has returned 7 after setEntity(7, e), with another object
\* of equal content stored under 12
C16_Found ==
    /\ lastOp.op = "getEntityId" /\ lastOp.result = Some(7)
    /\ DOMAIN entities[lastOp.c] = {7, 12}
    /\ entities[lastOp.c][12].val = Val(lastOp.arg).val

RegistryOps == {"deleteSession", "sessionExists", "getSessionInfo", "listSessions"}

\* C17: a registry call (deleteSession, sessionExists, getSessionInfo,
\* listSessions) leaves no handle of its own open when it returns or raises,
\* and leaves the handles of the controllers as they are.
C17_NoRegistryHandle ==
    /\ [](handles[0] = 0)
    /\ [][lastOp'.op \in RegistryOps =>
            /\ db' = db
            /\ \A c \in Ctrl : handles'[c] = handles[c]]_vars

\* C17 witness: a registry call for a name that has a row has returned while
\* a controller of that name holds an open handle
C17_Witness ==
    /\ lastOp.op \in RegistryOps /\ ~lastOp.raised /\ lastOp.hadRow
    /\ \E c \in Ctrl : sessionName[c] = lastOp.name /\ db[c] /\ handles[c] = 1
    /\ handles[0] = 0

\* a listSessions() call has raised while a controller holds an open handle
C17_RaisedReached ==
    /\ lastOp.op = "listSessions" /\ lastOp.raised
    /\ \E c \in Ctrl : db[c]

CacheMutators == {"setEntity", "deleteEntity", "clearEntities"}

\* the entities persisted for the name of controller c are those of its
\* memory: its row holds them, or there is no row and no entity
StoreMirrorsCache(c) ==
    IF HasRow(table, sessionName[c])
    THEN RowHoldsEntities(RowOf(table, sessionName[c]), entities[c])
    ELSE entities[c] = EmptyMap

\* C18: when a mutation of the entity Map (setEntity, deleteEntity,
\* clearEntities) of a Loaded controller has returned, the entities persisted
\* in the row of its name are the entities of its memory.
C18_StoreMirrorsCache ==
    (lastOp.op \in CacheMutators /\ lastOp.wasLoaded) => StoreMirrorsCache(lastOp.c)

\* C18 for setEntity alone
C18_SetEntityMirrored ==
    (lastOp.op = "setEntity" /\ lastOp.wasLoaded) => StoreMirrorsCache(lastOp.c)

\* the memory of controller c is what load() makes of the row alone: the key
\* bytes of the row, its data-center fields (for a row with a dc_id: '' for
\* no server_address, 443 for no port) and its entities and no others
MemoryIsRow(c, row) ==
    /\ GetKey(sessionData[c].authKey) = (IF rowHasKey(row) THEN row.auth_key ELSE None)
    /\ sessionData[c].dcId = loadDC(EmptyData, row).dcId
    /\ sessionData[c].serverAddress = loadDC(EmptyData, row).serverAddress
    /\ sessionData[c].port = loadDC(EmptyData, row).port
    /\ entities[c] = loadEntities(EmptyMap, row)

\* C19: when a load() that found a row has completed, the memory is exactly
\* what the row holds, whatever mutators were called before the load().
C19_LoadIsRow ==
    (lastOp.op = "load" /\ lastOp.row # None) =>
        MemoryIsRow(lastOp.c, Val(lastOp.row))

\* C19 for a load() on a controller with nothing in memory
C19_CleanLoadIsRow ==
    (lastOp.op = "load" /\ lastOp.row # None /\ lastOp.clean) =>
        MemoryIsRow(lastOp.c, Val(lastOp.row))

\* a load() on a controller with nothing in memory has found a row with a
\* key, a data center and entities
C19_CleanReached ==
    /\ lastOp.op = "load" /\ lastOp.row # None /\ lastOp.clean
    /\ rowHasKey(Val(lastOp.row)) /\ TruthyNum(Val(lastOp.row).dc_id)
    /\ entities[lastOp.c] # EmptyMap

\* C20: when a load() that found no row has completed, the memory is at its
\* empty defaults: no dcId, serverAddress, port and key, and no entities;
\* also for a load() that follows delete().
C20_NoRowDefaults ==
    (lastOp.op = "load" /\ lastOp.fetch # "none" /\ lastOp.row = None) =>
        IsEmpty(lastOp.c)

\* no row of the store holds a dc_id or a port of 0, or an address of '':
\* save() writes NULL for them, so that a column that is not NULL is truthy
RowsHoldNoFalsy ==
    \A r \in table :
        /\ r.dc_id # None => TruthyNum(r.dc_id)
        /\ r.server_address # None => TruthyStr(r.server_address)
        /\ r.port # None => TruthyNum(r.port)

\* C21: a load() that found a row populates the data-center fields if and
\* only if the row's dc_id is not NULL: then dcId is the stored dc_id, port the
\* stored port or 443 for NULL, serverAddress the stored address or '' for
\* NULL; for a NULL dc_id the three fields stay as they were.
C21_LoadDC ==
    [][\A c \in Ctrl :
          (lastOp'.op = "load" /\ lastOp'.c = c /\ lastOp'.row # None) =>
              LET row == Val(lastOp'.row)
              IN  IF row.dc_id # None
                  THEN /\ sessionData'[c].dcId = row.dc_id
                       /\ sessionData'[c].serverAddress =
                            (IF row.server_address # None
                             THEN row.server_address ELSE Some(""))
                       /\ sessionData'[c].port =
                            (IF row.port # None THEN row.port ELSE Some(443))
                  ELSE /\ sessionData'[c].dcId = sessionData[c].dcId
                       /\ sessionData'[c].serverAddress = sessionData[c].serverAddress
                       /\ sessionData'[c].port = sessionData[c].port]_vars

\* a load() has found a row with a dc_id and neither address nor port, and
\* the memory holds the dc_id, '' and 443
C21_Witness ==
    /\ lastOp.op = "load" /\ lastOp.row # None
    /\ Val(lastOp.row).dc_id # None
    /\ Val(lastOp.row).server_address = None /\ Val(lastOp.row).port = None
    /\ sessionData[lastOp.c].dcId = Val(lastOp.row).dc_id
    /\ sessionData[lastOp.c].serverAddress = Some("")
    /\ sessionData[lastOp.c].port = Some(443)

\* a load() has found a row without a dc_id, and the memory holds the data
\* center it held before
C21_StaysReached ==
    /\ lastOp.op = "load" /\ lastOp.row # None
    /\ Val(lastOp.row).dc_id = None
    /\ sessionData[lastOp.c].dcId = Some(2)
    /\ sessionData[lastOp.c].port = Some(80)

\* the entity Map ents holds exactly the entities of the document doc
HoldsDocEntities(ents, doc) ==
    /\ DOMAIN ents = {ParseInt(k) : k \in DOMAIN doc.entities}
    /\ \A k \in DOMAIN doc.entities : ents[ParseInt(k)] = doc.entities[k]

\* C22: when an importFromFile() has succeeded, dcId, serverAddress and port
\* are the document's, the entity Map holds exactly the document's entities,
\* the controller has an auth key if and only if the document's auth_key is
\* not null, and the row of the session name holds this same state.
C22_ImportReplaces ==
    (lastOp.op = "importFromFile" /\ ~lastOp.raised) =>
        LET c == lastOp.c
            doc == Val(lastOp.doc)
        IN  /\ sessionData[c].dcId = doc.dc_id
            /\ sessionData[c].serverAddress = doc.server_address
            /\ sessionData[c].port = doc.port
            /\ HoldsDocEntities(entities[c], doc)
            /\ (sessionData[c].authKey # None) <=> (doc.auth_key # None)
            /\ RowHoldsMemory(c)

\* C22, the auth key alone: after a successful importFromFile() the
\* controller has an auth key if and only if the document has one
C22_KeyFromDocument ==
    (lastOp.op = "importFromFile" /\ ~lastOp.raised) =>
        ((sessionData[lastOp.c].authKey # None) <=>
            (Val(lastOp.doc).auth_key # None))

\* C22 without the two failures: the data-center fields and the entities
\* are the document's, a document with a key gives the controller that key,
\* and the row holds the memory up to the columns of 0 and ''
C22_ImportReplacesRest ==
    (lastOp.op = "importFromFile" /\ ~lastOp.raised) =>
        LET c == lastOp.c
            doc == Val(lastOp.doc)
        IN  /\ sessionData[c].dcId = doc.dc_id
            /\ sessionData[c].serverAddress = doc.server_address
            /\ sessionData[c].port = doc.port
            /\ HoldsDocEntities(entities[c], doc)
            /\ doc.auth_key # None =>
                   GetKey(sessionData[c].authKey) = Some(FromHex(Val(doc.auth_key)))
            /\ RowHoldsTruthyMemory(c)

\* an importFromFile() of a document with a key, a data center of truthy
\* fields and an entity has succeeded
C22_RestReached ==
    /\ lastOp.op = "importFromFile" /\ ~lastOp.raised
    /\ Val(lastOp.doc).auth_key # None
    /\ TruthyNum(Val(lastOp.doc).dc_id)
    /\ DOMAIN Val(lastOp.doc).entities # {}

\* the ids of the entities a row holds (none for NULL or for a text that is
\* no JSON)
RowEntityIds(r) ==
    IF r.entities # None /\ JsonParses(Val(r.entities))
    THEN {ParseInt(k) : k \in DOMAIN JsonParse(Val(r.entities))}
    ELSE {}

\* the row new keeps what the row old stores: no column of key, data center
\* or entities that old holds is NULL in new, and no entity of old is missing
KeepsStored(old, new) ==
    /\ old.auth_key # None => new.auth_key # None
    /\ old.dc_id # None => new.dc_id # None
    /\ old.server_address # None => new.server_address # None
    /\ old.port # None => new.port # None
    /\ old.entities # None => new.entities # None
    /\ RowEntityIds(old) \subseteq RowEntityIds(new)

\* the step is a call or a resumed call, other than the calls of ops, on a
\* controller that is Unloaded and whose name has a row
UnloadedStepOnRow(ops) ==
    /\ lastOp'.c \in Ctrl
    /\ ~lastOp'.wasLoaded
    /\ lastOp'.hadRow
    /\ lastOp'.op \notin ops

\* the row of the name of the step is still there and keeps what it stored
RowKept ==
    /\ HasRow(table', lastOp'.name)
    /\ KeepsStored(RowOf(table, lastOp'.name), RowOf(table', lastOp'.name))

\* C23: no operation other than delete() performed on an Unloaded controller
\* removes or blanks the auth key, the data-center fields or the entities
\* stored in an already existing row of its session name.
C23_NoUnloadedOverwrite ==
    [][UnloadedStepOnRow({"delete"}) => RowKept]_vars

\* C23 for the operations other than delete(), save() and importFromFile()
C23_OthersKeepRow ==
    [][UnloadedStepOnRow({"delete", "save", "importFromFile"}) => RowKept]_vars

\* a mutator has returned on an Unloaded controller whose name has a row
\* with a key and a data center, and the controller holds another data center
C23_OthersReached ==
    /\ lastOp.op = "setDC" /\ ~lastOp.wasLoaded /\ lastOp.hadRow
    /\ HasRow(table, lastOp.name)
    /\ RowOf(table, lastOp.name).auth_key # None
    /\ RowOf(table, lastOp.name).dc_id # sessionData[lastOp.c].dcId

====
